---- MODULE Spec2Model ----
(***************************************************************************)
(* A model of icelake's Table (src/src/table.rs): the fields of the struct, *)
(* the storage the Operator reads, and one action per step of load,         *)
(* current_table_metadata, current_data_files and rel_path.  An async fn    *)
(* is a task whose position (pc) is the .await it is suspended at.          *)
(***************************************************************************)
EXTENDS Integers, Sequences, FiniteSets, TLC

(***************************************************************************)
(* Option and Result.                                                       *)
(***************************************************************************)
None == <<>>
Some(x) == <<x>>

Ok(v) == [ok |-> TRUE, val |-> v]
Err(e) == [ok |-> FALSE, err |-> e]

\* The messages of the anyhow! errors and of the errors `?` passes through.
ErrNotLoaded == "table metadata not loaded yet"
ErrNotFound == "table metadata not found"
ErrNoCurrentSnapshot == "current snapshot id is empty"
ErrNoSnapshots == "snapshots is emppty"
ErrSnapshotNotFound == "snapshot with id is not found"
ErrLocationEmpty == "table location is empty, maybe it's not loaded?"
ErrNotUnderLocation == "path is not starts with table location"
ErrHintExist == "check if version hint exist failed"
ErrHintUtf8 == "invalid utf-8 sequence"
ErrHintParse == "parse version hint failed"
ErrList == "list metadata failed"
ErrListEntry == "list metadata entry failed"
ErrNoMetadata == "no table metadata found"
ErrStorage == "storage read failed"
ErrDecode == "decode failed"

(***************************************************************************)
(* Strings.  A str is compared and cut byte by byte; the bytes used here    *)
(* are among those of Ascii below, listed in the order of their codes.     *)
(***************************************************************************)
Ascii == " +-./0123456789:ABCDEFGHIJKLMNOPQRSTUVWXYZ_abcdefghijklmnopqrstuvwxyz"

CharAt(s, i) == SubSeq(s, i, i)

Ord(c) == IF c = "\n" THEN 0 ELSE CHOOSE i \in 1..Len(Ascii) : CharAt(Ascii, i) = c

Min(a, b) == IF a <= b THEN a ELSE b

\* <str as Ord>::cmp: the first differing byte decides, then the length.
StrLess(a, b) ==
    \/ \E i \in 1..Min(Len(a), Len(b)) :
          /\ SubSeq(a, 1, i - 1) = SubSeq(b, 1, i - 1)
          /\ Ord(CharAt(a, i)) < Ord(CharAt(b, i))
    \/ Len(a) < Len(b) /\ SubSeq(b, 1, Len(a)) = a

\* str::ends_with
EndsWith(s, suffix) ==
    /\ Len(suffix) <= Len(s)
    /\ SubSeq(s, Len(s) - Len(suffix) + 1, Len(s)) = suffix

\* As StripPrefix, but the separator that follows the prefix is cut as well.
StripPrefixAndSeparator(s, prefix) ==
    IF Len(prefix) <= Len(s) /\ SubSeq(s, 1, Len(prefix)) = prefix
    THEN IF Len(prefix) < Len(s) /\ CharAt(s, Len(prefix) + 1) = "/"
         THEN Some(SubSeq(s, Len(prefix) + 2, Len(s)))
         ELSE Some(SubSeq(s, Len(prefix) + 1, Len(s)))
    ELSE None

\* str::strip_prefix: Some(rest) when prefix starts s byte for byte.
StripPrefix(s, prefix) ==
    IF Len(prefix) <= Len(s) /\ SubSeq(s, 1, Len(prefix)) = prefix
    THEN Some(SubSeq(s, Len(prefix) + 1, Len(s)))
    ELSE None

(***************************************************************************)
(* <i32 as FromStr>::from_str: an optional sign, then one or more decimal   *)
(* digits, the value checked against the range of i32.                      *)
(***************************************************************************)
Digits == "0123456789"
IsDigit(c) == \E i \in 1..Len(Digits) : CharAt(Digits, i) = c
DigitVal(c) == (CHOOSE i \in 1..Len(Digits) : CharAt(Digits, i) = c) - 1

I32MaxText == "2147483647"
I32MinText == "2147483648"

RECURSIVE StripZeros(_)
StripZeros(s) ==
    IF Len(s) > 1 /\ Head(s) = "0" THEN StripZeros(Tail(s)) ELSE s

\* The digits d (no leading zero) are at most the digits of limit.
FitsIn(d, limit) ==
    \/ Len(d) < Len(limit)
    \/ Len(d) = Len(limit) /\ ~StrLess(limit, d)

\* The accumulation loop: checked_add for "+", checked_sub for "-".
RECURSIVE Accumulate(_, _, _)
Accumulate(s, acc, sign) ==
    IF s = "" THEN acc
    ELSE Accumulate(Tail(s), acc * 10 + sign * DigitVal(Head(s)), sign)

ParseI32(s) ==
    LET neg == s # "" /\ Head(s) = "-"
        signed == s # "" /\ Head(s) \in {"+", "-"}
        body == IF signed THEN Tail(s) ELSE s
    IN  IF body = "" THEN Err(ErrHintParse)
        ELSE IF \E i \in 1..Len(body) : ~IsDigit(CharAt(body, i))
        THEN Err(ErrHintParse)
        ELSE IF ~FitsIn(StripZeros(body), IF neg THEN I32MinText ELSE I32MaxText)
        THEN Err(ErrHintParse)
        ELSE Ok(Accumulate(body, 0, IF neg THEN -1 ELSE 1))

\* String::from_utf8 on the bytes of the hint file.
FromUtf8(bytes) == IF bytes.utf8 THEN Ok(bytes.text) ELSE Err(ErrHintUtf8)

\* As VersionHintPath, but naming the version after the hinted one.
VersionHintPathNext(version_hint) ==
    "metadata/v" \o ToString(version_hint + 1) \o ".metadata.json"

\* format!("metadata/v{}.metadata.json", version_hint)
VersionHintPath(version_hint) ==
    "metadata/v" \o ToString(version_hint) \o ".metadata.json"

\* Bounds of the model.
MaxListed == 3
MaxReaders == 1
MaxInterleaved == 2

HintFile == "metadata/version-hint.text"
MetadataDir == "metadata/"
MetadataSuffix == ".metadata.json"

(***************************************************************************)
(* The records of crate::types that Table reads.                            *)
(***************************************************************************)
Snapshot(id, list) == [snapshot_id |-> id, manifest_list |-> list]

TableMetadata(ms, loc, cur, snaps) ==
    [last_updated_ms |-> ms, location |-> loc,
     current_snapshot_id |-> cur, snapshots |-> snaps]

DataFile(path) == [file_path |-> path]
ManifestFile(df) == [data_file |-> df]
ManifestList(path) == [manifest_path |-> path]

\* What an object of the storage holds, by the codec that decodes it.
MetadataBytes(m) == [kind |-> "table_metadata", val |-> m]
ManifestListBytes(l) == [kind |-> "manifest_list", val |-> l]
ManifestFileBytes(fs) == [kind |-> "manifest_file", val |-> fs]

\* types::parse_table_metadata, parse_manifest_list, parse_manifest_file
parse_table_metadata(content) ==
    IF content.kind = "table_metadata" THEN Ok(content.val) ELSE Err(ErrDecode)
parse_manifest_list(content) ==
    IF content.kind = "manifest_list" THEN Ok(content.val) ELSE Err(ErrDecode)
parse_manifest_file(content) ==
    IF content.kind = "manifest_file" THEN Ok(content.val) ELSE Err(ErrDecode)

(***************************************************************************)
(* The tables the model is run on.  Two locations, one a byte prefix of     *)
(* the other; metadata files v1, v2, v3, v10 (v10 has the timestamp of v1   *)
(* and another location, v3 the timestamp 0), v4 that does not decode.      *)
(***************************************************************************)
L1 == "/w/t"
L2 == "/w/t2"

D0 == DataFile(L1 \o "/data/00000.parquet")
D1 == DataFile(L1 \o "/data/00001.parquet")
D2 == DataFile(L1 \o "/data/00002.parquet")

MetaV1 == TableMetadata(1, L1, Some(1),
              Some(<<Snapshot(1, L1 \o "/metadata/snap-1.avro")>>))
MetaV2 == TableMetadata(2, L1, Some(2),
              Some(<<Snapshot(1, L1 \o "/metadata/snap-1.avro"),
                     Snapshot(2, L1 \o "/metadata/snap-2.avro"),
                     Snapshot(2, L1 \o "/metadata/snap-1.avro")>>))
MetaV3 == TableMetadata(0, L1, Some(1),
              Some(<<Snapshot(1, L1 \o "/metadata/snap-1.avro")>>))
MetaV10 == TableMetadata(1, L2, Some(1),
              Some(<<Snapshot(1, L2 \o "/metadata/snap-1.avro")>>))

PathV1 == "metadata/v1.metadata.json"
PathV2 == "metadata/v2.metadata.json"
PathV3 == "metadata/v3.metadata.json"
PathV4 == "metadata/v4.metadata.json"
PathV10 == "metadata/v10.metadata.json"
PathSnap1 == "metadata/snap-1.avro"
PathSnap2 == "metadata/snap-2.avro"
PathM1 == "manifests/m1.avro"
PathM2 == "manifests/m2.avro"

(***************************************************************************)
(* Tables for the walk of current_data_files.  Ten metadata files that      *)
(* share one timestamp and differ in what the walk meets: a list with two   *)
(* snapshots of the current id (R0), no current snapshot id (R1, R2), no    *)
(* snapshots (R2, R3), an empty list (R4), no snapshot of the current id    *)
(* (R5), a manifest list outside the location (R6), one that does not       *)
(* decode (R7), a manifest outside the location (R8), one that does not     *)
(* decode (R9).                                                             *)
(***************************************************************************)
Elsewhere == "/elsewhere"

PathSnap3 == "metadata/snap-3.avro"
PathSnap4 == "metadata/snap-4.avro"
PathSnap5 == "metadata/snap-5.avro"
PathM3 == "manifests/m3.avro"

S1 == Snapshot(1, L1 \o "/" \o PathSnap1)
S2 == Snapshot(2, L1 \o "/" \o PathSnap2)

MetaR0 == TableMetadata(5, L1, Some(2), Some(<<S1, S2, Snapshot(2, L1 \o "/" \o PathSnap1)>>))
MetaR1 == TableMetadata(5, L1, None, Some(<<S1>>))
MetaR2 == TableMetadata(5, L1, None, None)
MetaR3 == TableMetadata(5, L1, Some(1), None)
MetaR4 == TableMetadata(5, L1, Some(1), Some(<<>>))
MetaR5 == TableMetadata(5, L1, Some(3), Some(<<S1, S2>>))
MetaR6 == TableMetadata(5, L1, Some(1), Some(<<Snapshot(1, Elsewhere \o "/" \o PathSnap1)>>))
MetaR7 == TableMetadata(5, L1, Some(1), Some(<<Snapshot(1, L1 \o "/" \o PathSnap3)>>))
MetaR8 == TableMetadata(5, L1, Some(1), Some(<<Snapshot(1, L1 \o "/" \o PathSnap4)>>))
MetaR9 == TableMetadata(5, L1, Some(1), Some(<<Snapshot(1, L1 \o "/" \o PathSnap5)>>))

ReaderMetadata == <<MetaR0, MetaR1, MetaR2, MetaR3, MetaR4, MetaR5, MetaR6, MetaR7,
                    MetaR8, MetaR9>>

\* The file of ReaderMetadata[n + 1] is metadata/v2<n>.metadata.json.
ReaderVersion(n) == 20 + n
PathR(n) == VersionHintPath(ReaderVersion(n))

ReaderContent ==
    [p \in {PathR(n) : n \in 0..9} |->
        MetadataBytes(ReaderMetadata[(CHOOSE n \in 0..9 : PathR(n) = p) + 1])] @@
    (PathSnap3 :> [kind |-> "garbage"]) @@
    (PathSnap4 :> ManifestListBytes(ManifestList(Elsewhere \o "/" \o PathM1))) @@
    (PathSnap5 :> ManifestListBytes(ManifestList(L1 \o "/" \o PathM3))) @@
    (PathM3 :> [kind |-> "garbage"])

\* The bytes of every object a storage of the model may hold, by path.
Content ==
    ReaderContent @@
    (PathV1 :> MetadataBytes(MetaV1)) @@ (PathV2 :> MetadataBytes(MetaV2)) @@
    (PathV3 :> MetadataBytes(MetaV3)) @@ (PathV10 :> MetadataBytes(MetaV10)) @@
    (PathV4 :> [kind |-> "garbage"]) @@
    (PathSnap1 :> ManifestListBytes(ManifestList(L1 \o "/" \o PathM1))) @@
    (PathSnap2 :> ManifestListBytes(ManifestList(L1 \o "/" \o PathM2))) @@
    (PathM1 :> ManifestFileBytes(<<ManifestFile(D0), ManifestFile(D1), ManifestFile(D2)>>)) @@
    (PathM2 :> ManifestFileBytes(<<ManifestFile(D2), ManifestFile(D0), ManifestFile(D2)>>))

Text(t) == [utf8 |-> TRUE, text |-> t]
NotUtf8 == [utf8 |-> FALSE, text |-> ""]

\* The hint file: absent, present with its bytes, present but unreadable, or
\* the existence check itself fails.
Hint(stat, bytes) == [stat |-> stat, bytes |-> bytes]
HintAbsent == Hint("absent", NotUtf8)

HintTexts == {"1", "2", "3", "4", "7", "10", "+2", "002", "2\n", "", "v2",
              "2147483648"}

Hints == {Hint("present", Text(t)) : t \in HintTexts}
            \cup {Hint("present", NotUtf8), Hint("unreadable", NotUtf8),
                  Hint("exists_fails", NotUtf8)}

Storage(hint, list, present) == [hint |-> hint, list |-> list, present |-> present]

ChainFiles == {PathSnap1, PathSnap2, PathM1, PathM2}
ListedMetadata == {PathV1, PathV2, PathV3, PathV10}

\* Storages with a hint file: the hint varies over Hints.
HintStorages ==
    {Storage(h, "ok", ChainFiles \cup {PathV1, PathV2, PathV3, PathV4, PathV10}) :
        h \in Hints}

\* Storages without a hint file: the objects under metadata/ vary.
ListStorages ==
    {Storage(HintAbsent, "ok", {PathSnap1, PathM1} \cup S) :
        S \in {T \in SUBSET ListedMetadata : Cardinality(T) <= MaxListed}}
    \cup {Storage(HintAbsent, "ok", {PathV4, PathV1}),
          Storage(HintAbsent, "ok", {}),
          Storage(HintAbsent, "list_fails", {PathV1, PathV2}),
          Storage(HintAbsent, "entry_fails", {PathV1, PathV2})}

Storages == HintStorages \cup ListStorages

\* Storages for the walk of current_data_files: the hint names one of the
\* files of ReaderMetadata and every object of the chain is there; or an
\* object of the chain of R0 is missing; or load fails at one of its steps.
ReaderFiles ==
    {PathR(n) : n \in 0..9} \cup
    {PathSnap1, PathSnap2, PathSnap3, PathSnap4, PathSnap5, PathM1, PathM2, PathM3}

ReaderHint(n) == Hint("present", Text(ToString(ReaderVersion(n))))

ReaderStorages ==
    {Storage(ReaderHint(n), "ok", ReaderFiles) : n \in 0..9}
    \cup {Storage(ReaderHint(0), "ok", ReaderFiles \ {PathSnap2}),
          Storage(ReaderHint(0), "ok", ReaderFiles \ {PathM2})}
    \cup {Storage(h, "ok", ReaderFiles \cup {PathV4}) :
            h \in {Hint("exists_fails", NotUtf8), Hint("unreadable", NotUtf8),
                   Hint("present", NotUtf8), Hint("present", Text("v20")),
                   Hint("present", Text("7")), Hint("present", Text("4"))}}
    \cup {Storage(HintAbsent, "ok", {PathR(0), PathSnap1, PathSnap2, PathM2}),
          Storage(HintAbsent, "ok", {PathSnap2, PathM2}),
          Storage(HintAbsent, "list_fails", {PathR(0)}),
          Storage(HintAbsent, "entry_fails", {PathR(0)})}

\* The storages a run ranges over are those of the family it starts in.
Family(st) == IF st \in Storages THEN Storages ELSE ReaderStorages

(***************************************************************************)
(* The Operator (opendal).  read takes a path relative to the root, with    *)
(* or without a leading "/"; list streams the objects under a prefix in an  *)
(* order of the backend's choosing.                                         *)
(***************************************************************************)
NormalizePath(path) ==
    IF path # "" /\ Head(path) = "/" THEN Tail(path) ELSE path

BackendRead(st, path) ==
    IF NormalizePath(path) \in st.present
    THEN Ok(Content[NormalizePath(path)])
    ELSE Err(ErrStorage)

Listed(st, prefix) == {p \in st.present : StripPrefix(p, prefix) # None}

\* Every order in which the backend may stream the set S.
Orders(S) ==
    {f \in [1..Cardinality(S) -> S] :
        \A i, j \in 1..Cardinality(S) : i # j => f[i] # f[j]}

(***************************************************************************)
(* list_table_metadata_paths: filter, then sort by name.                    *)
(***************************************************************************)
\* As Filter, but every entry of the listing is kept.
FilterKeepsAll(entries) == entries

RECURSIVE Filter(_)
Filter(entries) ==
    IF entries = <<>> THEN <<>>
    ELSE IF EndsWith(Head(entries), MetadataSuffix)
         THEN <<Head(entries)>> \o Filter(Tail(entries))
         ELSE Filter(Tail(entries))

RECURSIVE Insert(_, _)
Insert(sorted, p) ==
    IF sorted = <<>> THEN <<p>>
    ELSE IF StrLess(p, Head(sorted)) THEN <<p>> \o sorted
    ELSE <<Head(sorted)>> \o Insert(Tail(sorted), p)

RECURSIVE Sort(_)
Sort(paths) ==
    IF paths = <<>> THEN <<>>
    ELSE Insert(Sort(Tail(paths)), Head(paths))

\* files.into_iter().last()
Last(files) == IF files = <<>> THEN None ELSE Some(files[Len(files)])

(***************************************************************************)
(* State.  The three fields of Table; the storage behind `op`; the load     *)
(* task and the current_data_files tasks; and what the last call returned.  *)
(***************************************************************************)
VARIABLES
    table_metadata,     \* HashMap<i64, TableMetadata>: a function on its keys
    current_version,    \* i64, 0 until a load stores a version
    current_location,   \* Option<String>
    storage,            \* what the Operator reads
    ld,                 \* the load task: the await it is at, its locals
    rd,                 \* the current_data_files tasks, by task number
    ret,                \* the last call that ended, with its result
    last_loaded,        \* the metadata decoded by the last load that returned Ok
    load_failed         \* some load has returned an error or was dropped

vars == <<table_metadata, current_version, current_location, storage, ld, rd,
          ret, last_loaded, load_failed>>

table == <<table_metadata, current_version, current_location>>

\* The fields of the Table as one value.
Fields == [version |-> current_version, location |-> current_location,
           cache |-> table_metadata]

\* The fields as Table::new sets them.
NewFields == [version |-> 0, location |-> None, cache |-> <<>>]

NoMetadata == TableMetadata(0, "", None, None)

IdleLoad == [pc |-> "idle", path |-> "", metadata |-> NoMetadata, calls |-> <<>>,
             pre |-> NewFields, again |-> FALSE]
IdleRead == [pc |-> "idle", path |-> "", calls |-> <<>>]

Readers == DOMAIN rd

NoReader == \A i \in Readers : rd[i].pc = "idle"
Quiescent == ld.pc = "idle" /\ NoReader

Call(kind, path) == <<kind, path>>

\* A call that ended: by returning res, or by its future being dropped.
Returned(op, arg, res, calls, pre, again) ==
    [op |-> op, arg |-> arg, out |-> "returned", res |-> res, calls |-> calls,
     pre |-> pre, again |-> again]
Dropped(op, calls, pre) ==
    [op |-> op, arg |-> "", out |-> "dropped", res |-> Err("dropped"),
     calls |-> calls, pre |-> pre, again |-> FALSE]
NoCall(what) ==
    [op |-> what, arg |-> "", out |-> "none", res |-> Err("none"), calls |-> <<>>,
     pre |-> NewFields, again |-> FALSE]

\* Table::new, over one of the storages of S, with n tasks that may call
\* current_data_files.
New(S, n) ==
    /\ table_metadata = <<>>
    /\ current_version = 0
    /\ current_location = None
    /\ storage \in S
    /\ ld = IdleLoad
    /\ rd = [i \in 1..n |-> IdleRead]
    /\ ret = NoCall("new")
    /\ last_loaded = None
    /\ load_failed = FALSE

Init == New(Storages, MaxReaders)

\* The same Table over the storages of the walk, with concurrent readers.
InitReaders == New(ReaderStorages, MaxInterleaved)

\* Another writer (or the backend) changes what the storage holds, between
\* the calls on this Table.
StorageChanges ==
    /\ Quiescent
    /\ storage' \in Family(storage) \ {storage}
    /\ ret' = NoCall("storage")
    /\ UNCHANGED <<table, ld, rd, last_loaded, load_failed>>

(***************************************************************************)
(* load                                                                     *)
(***************************************************************************)
LoadFails(e) ==
    /\ ret' = Returned("load", "", Err(e), ld.calls, ld.pre, ld.again)
    /\ ld' = IdleLoad
    /\ load_failed' = TRUE
    /\ UNCHANGED <<table, storage, rd, last_loaded>>

LoadAwaits(pc, path, call) ==
    /\ ld' = [ld EXCEPT !.pc = pc, !.path = path, !.calls = Append(@, call)]
    /\ UNCHANGED <<table, storage, rd, ret, last_loaded, load_failed>>

\* As Load, but the current pointers are reset before the first await.
LoadResetsFirst ==
    /\ Quiescent
    /\ ld' = [pc |-> "is_exist", path |-> HintFile, metadata |-> NoMetadata,
              calls |-> <<Call("is_exist", HintFile)>>, pre |-> Fields,
              again |-> (ret.op = "load" /\ ret.out = "returned")]
    /\ ret' = NoCall("none")
    /\ current_version' = 0
    /\ current_location' = None
    /\ UNCHANGED <<table_metadata, storage, rd, last_loaded, load_failed>>

\* load is called and runs to its first await, in is_version_hint_exist.
Load ==
    /\ Quiescent
    /\ ld' = [pc |-> "is_exist", path |-> HintFile, metadata |-> NoMetadata,
              calls |-> <<Call("is_exist", HintFile)>>, pre |-> Fields,
              again |-> (ret.op = "load" /\ ret.out = "returned")]
    /\ ret' = NoCall("none")
    /\ UNCHANGED <<table, storage, rd, last_loaded, load_failed>>

\* is_exist answers: the error ends load, true goes on to read the hint,
\* false to list metadata/.
IsVersionHintExist ==
    /\ ld.pc = "is_exist"
    /\ CASE storage.hint.stat = "exists_fails" -> LoadFails(ErrHintExist)
         [] storage.hint.stat = "absent" ->
              LoadAwaits("list", MetadataDir, Call("list", MetadataDir))
         [] OTHER -> LoadAwaits("read_hint", HintFile, Call("read", HintFile))

\* As ReadVersionHint, but a hint that does not parse is taken as version 1.
ReadVersionHintFallsBack ==
    /\ ld.pc = "read_hint"
    /\ IF storage.hint.stat = "unreadable" THEN LoadFails(ErrStorage)
       ELSE LET version_hint == FromUtf8(storage.hint.bytes)
                parsed == ParseI32(version_hint.val)
            IN  IF ~version_hint.ok THEN LoadFails(version_hint.err)
                ELSE IF ~parsed.ok
                     THEN LoadAwaits("read_metadata", VersionHintPath(1),
                                     Call("read", VersionHintPath(1)))
                ELSE LoadAwaits("read_metadata", VersionHintPath(parsed.val),
                                Call("read", VersionHintPath(parsed.val)))

\* The read of the hint answers; the hint is decoded and parsed, and the
\* metadata file it names is read.
ReadVersionHint ==
    /\ ld.pc = "read_hint"
    /\ IF storage.hint.stat = "unreadable" THEN LoadFails(ErrStorage)
       ELSE LET version_hint == FromUtf8(storage.hint.bytes)
                parsed == ParseI32(version_hint.val)
            IN  IF ~version_hint.ok THEN LoadFails(version_hint.err)
                ELSE IF ~parsed.ok THEN LoadFails(parsed.err)
                ELSE LoadAwaits("read_metadata", VersionHintPath(parsed.val),
                                Call("read", VersionHintPath(parsed.val)))

\* The listing answers, entry by entry, in an order of the backend's.
ListTableMetadataPaths ==
    /\ ld.pc = "list"
    /\ CASE storage.list = "list_fails" -> LoadFails(ErrList)
         [] storage.list = "entry_fails" -> LoadFails(ErrListEntry)
         [] OTHER ->
              \E entries \in Orders(Listed(storage, MetadataDir)) :
                 LET files == Sort(Filter(entries))
                 IN  IF Last(files) = None THEN LoadFails(ErrNoMetadata)
                     ELSE LoadAwaits("read_metadata", Last(files)[1],
                                     Call("read", Last(files)[1]))

\* read_table_metadata: the read answers and the bytes are decoded.
ReadTableMetadata ==
    /\ ld.pc = "read_metadata"
    /\ LET content == BackendRead(storage, ld.path)
           metadata == parse_table_metadata(content.val)
       IN  IF ~content.ok THEN LoadFails(content.err)
           ELSE IF ~metadata.ok THEN LoadFails(metadata.err)
           ELSE /\ ld' = [ld EXCEPT !.pc = "set_version", !.metadata = metadata.val]
                /\ UNCHANGED <<table, storage, rd, ret, last_loaded, load_failed>>

\* self.current_version = metadata.last_updated_ms;
LoadSetVersion ==
    /\ ld.pc = "set_version"
    /\ current_version' = ld.metadata.last_updated_ms
    /\ ld' = [ld EXCEPT !.pc = "set_location"]
    /\ UNCHANGED <<table_metadata, current_location, storage, rd, ret, last_loaded,
                 load_failed>>

\* As LoadSetLocation, but a location that is already set is kept.
LoadSetLocationOnce ==
    /\ ld.pc = "set_location"
    /\ current_location' = IF current_location = None THEN Some(ld.metadata.location)
                           ELSE current_location
    /\ ld' = [ld EXCEPT !.pc = "insert"]
    /\ UNCHANGED <<table_metadata, current_version, storage, rd, ret, last_loaded,
                 load_failed>>

\* self.current_location = Some(metadata.location.clone());
LoadSetLocation ==
    /\ ld.pc = "set_location"
    /\ current_location' = Some(ld.metadata.location)
    /\ ld' = [ld EXCEPT !.pc = "insert"]
    /\ UNCHANGED <<table_metadata, current_version, storage, rd, ret, last_loaded,
                 load_failed>>

\* As MapInsert, but a value at an existing key is kept and the new one added
\* under the next free key.
MapInsertAppends(map, key, value) ==
    LET free == CHOOSE k \in key..(key + Cardinality(DOMAIN map)) : k \notin DOMAIN map
    IN  [k \in DOMAIN map \cup {free} |-> IF k = free THEN value ELSE map[k]]

\* As MapInsert, but the key is the number of entries the map then has.
MapInsertByCount(map, key, value) ==
    [k \in DOMAIN map \cup {Cardinality(DOMAIN map) + 1} |->
        IF k = Cardinality(DOMAIN map) + 1 THEN value ELSE map[k]]

\* As MapInsert, but the value at an existing key is kept.
MapInsertKeepsFirst(map, key, value) ==
    [k \in DOMAIN map \cup {key} |-> IF k \in DOMAIN map THEN map[k] ELSE value]

\* HashMap::insert: the value at an existing key is replaced.
MapInsert(map, key, value) ==
    [k \in DOMAIN map \cup {key} |-> IF k = key THEN value ELSE map[k]]

\* self.table_metadata.insert(metadata.last_updated_ms, metadata); Ok(())
LoadInsert ==
    /\ ld.pc = "insert"
    /\ table_metadata' = MapInsert(table_metadata, ld.metadata.last_updated_ms,
                                   ld.metadata)
    /\ last_loaded' = Some(ld.metadata)
    /\ ret' = Returned("load", "", Ok("unit"), ld.calls, ld.pre, ld.again)
    /\ ld' = IdleLoad
    /\ UNCHANGED <<current_version, current_location, storage, rd, load_failed>>

\* As LoadDropped, but load can also be dropped between its assignments, as
\* if an await stood between them.
LoadDroppedInCommit ==
    /\ ld.pc \in {"is_exist", "read_hint", "list", "read_metadata", "set_location",
                  "insert"}
    /\ ret' = Dropped("load", ld.calls, ld.pre)
    /\ ld' = IdleLoad
    /\ load_failed' = TRUE
    /\ UNCHANGED <<table, storage, rd, last_loaded>>

\* The caller drops the future of load while it is suspended at an await.
LoadDropped ==
    /\ ld.pc \in {"is_exist", "read_hint", "list", "read_metadata"}
    /\ ret' = Dropped("load", ld.calls, ld.pre)
    /\ ld' = IdleLoad
    /\ load_failed' = TRUE
    /\ UNCHANGED <<table, storage, rd, last_loaded>>

LoadStep ==
    \/ IsVersionHintExist
    \/ ReadVersionHint
    \/ ListTableMetadataPaths
    \/ ReadTableMetadata
    \/ LoadSetVersion
    \/ LoadSetLocation
    \/ LoadInsert
    \/ LoadDropped

(***************************************************************************)
(* current_table_metadata and rel_path: no await, one step each.            *)
(***************************************************************************)
\* As current_table_metadata, but without the check of the sentinel.
current_table_metadata_unguarded ==
    IF current_version \notin DOMAIN table_metadata THEN Err(ErrNotFound)
    ELSE Ok(table_metadata[current_version])

current_table_metadata ==
    IF current_version = 0 THEN Err(ErrNotLoaded)
    ELSE IF current_version \notin DOMAIN table_metadata THEN Err(ErrNotFound)
    ELSE Ok(table_metadata[current_version])

\* As rel_path, but the location must end at a path separator of path.
rel_path_by_component(path) ==
    IF current_location = None THEN Err(ErrLocationEmpty)
    ELSE LET rest == StripPrefix(path, current_location[1])
         IN  IF rest = None \/ (rest[1] # "" /\ Head(rest[1]) # "/")
             THEN Err(ErrNotUnderLocation)
             ELSE Ok(rest[1])

rel_path(path) ==
    IF current_location = None THEN Err(ErrLocationEmpty)
    ELSE LET rest == StripPrefix(path, current_location[1])
         IN  IF rest = None THEN Err(ErrNotUnderLocation) ELSE Ok(rest[1])

\* The paths rel_path is called with.
RelPathSuffixes == {"/metadata/x", "/metadata/", ""}
RelPathArgs ==
    {l \o x : l \in {L1, L2}, x \in RelPathSuffixes}
        \cup {"metadata/x", "/w", "/W/t/metadata/x", ""}

CurrentTableMetadata ==
    /\ ld.pc = "idle"
    /\ ret' = Returned("current_table_metadata", "", current_table_metadata,
                       <<>>, Fields, FALSE)
    /\ UNCHANGED <<table, storage, ld, rd, last_loaded, load_failed>>

RelPath ==
    /\ ld.pc = "idle"
    /\ \E path \in RelPathArgs :
          ret' = Returned("rel_path", path, rel_path(path), <<>>, Fields, FALSE)
    /\ UNCHANGED <<table, storage, ld, rd, last_loaded, load_failed>>

(***************************************************************************)
(* current_data_files                                                       *)
(***************************************************************************)
\* .iter().find(|v| v.snapshot_id == current_snapshot_id)
Find(snapshots, id) ==
    IF \E i \in 1..Len(snapshots) : snapshots[i].snapshot_id = id
    THEN Some(snapshots[CHOOSE i \in 1..Len(snapshots) :
                 /\ snapshots[i].snapshot_id = id
                 /\ \A j \in 1..(i - 1) : snapshots[j].snapshot_id # id])
    ELSE None

\* The current snapshot of the cached metadata, or the error that ends the call.
CurrentSnapshot ==
    IF current_version = 0 THEN Err(ErrNotLoaded)
    ELSE IF current_version \notin DOMAIN table_metadata THEN Err(ErrNotFound)
    ELSE LET meta == table_metadata[current_version]
         IN  IF meta.current_snapshot_id = None THEN Err(ErrNoCurrentSnapshot)
             ELSE IF meta.snapshots = None THEN Err(ErrNoSnapshots)
             ELSE LET found == Find(meta.snapshots[1], meta.current_snapshot_id[1])
                  IN  IF found = None THEN Err(ErrSnapshotNotFound)
                      ELSE Ok(found[1])

\* As DataFiles, but a data file already collected is not collected again.
RECURSIVE DataFilesDeduplicated(_)
DataFilesDeduplicated(manifest_files) ==
    IF manifest_files = <<>> THEN <<>>
    ELSE LET n == Len(manifest_files)
             front == DataFilesDeduplicated(SubSeq(manifest_files, 1, n - 1))
             df == manifest_files[n].data_file
         IN  IF \E i \in 1..Len(front) : front[i] = df THEN front
             ELSE Append(front, df)

\* manifest_files.into_iter().map(|v| v.data_file).collect()
DataFiles(manifest_files) ==
    [i \in 1..Len(manifest_files) |-> manifest_files[i].data_file]

DataFilesFails(i, e) ==
    /\ ret' = Returned("current_data_files", "", Err(e), rd[i].calls, Fields, FALSE)
    /\ rd' = [rd EXCEPT ![i] = IdleRead]
    /\ UNCHANGED <<table, storage, ld, last_loaded, load_failed>>

\* As DataFilesAwaits, but the tasks in flight keep the path they read in one
\* buffer they share.
DataFilesAwaitsShared(i, pc, path) ==
    /\ rd' = [j \in DOMAIN rd |->
                IF j = i
                THEN [pc |-> pc, path |-> path,
                      calls |-> Append(rd[i].calls, Call("read", path))]
                ELSE IF rd[j].pc # "idle" THEN [rd[j] EXCEPT !.path = path]
                ELSE rd[j]]
    /\ UNCHANGED <<table, storage, ld, ret, last_loaded, load_failed>>

DataFilesAwaits(i, pc, path) ==
    /\ rd' = [rd EXCEPT ![i] = [pc |-> pc, path |-> path,
                                calls |-> Append(rd[i].calls, Call("read", path))]]
    /\ UNCHANGED <<table, storage, ld, ret, last_loaded, load_failed>>

\* current_data_files is called and runs to its first await, the read of the
\* manifest list, or to the error that ends it before.
CurrentDataFiles(i) ==
    /\ ld.pc = "idle"
    /\ rd[i].pc = "idle"
    /\ LET snapshot == CurrentSnapshot
           manifest_list_path == rel_path(snapshot.val.manifest_list)
       IN  IF ~snapshot.ok THEN DataFilesFails(i, snapshot.err)
           ELSE IF ~manifest_list_path.ok THEN DataFilesFails(i, manifest_list_path.err)
           ELSE DataFilesAwaits(i, "read_manifest_list", manifest_list_path.val)

\* As ReadManifestList, but a manifest path that is not under the location
\* is read as it is written in the manifest list.
ReadManifestListFallsBack(i) ==
    /\ rd[i].pc = "read_manifest_list"
    /\ LET content == BackendRead(storage, rd[i].path)
           manifest_list == parse_manifest_list(content.val)
           manifest_path == rel_path(manifest_list.val.manifest_path)
       IN  IF ~content.ok THEN DataFilesFails(i, content.err)
           ELSE IF ~manifest_list.ok THEN DataFilesFails(i, manifest_list.err)
           ELSE IF ~manifest_path.ok
                THEN DataFilesAwaits(i, "read_manifest", manifest_list.val.manifest_path)
           ELSE DataFilesAwaits(i, "read_manifest", manifest_path.val)

\* The read of the manifest list answers; it is decoded and the manifest
\* file it names is read.
ReadManifestList(i) ==
    /\ rd[i].pc = "read_manifest_list"
    /\ LET content == BackendRead(storage, rd[i].path)
           manifest_list == parse_manifest_list(content.val)
           manifest_path == rel_path(manifest_list.val.manifest_path)
       IN  IF ~content.ok THEN DataFilesFails(i, content.err)
           ELSE IF ~manifest_list.ok THEN DataFilesFails(i, manifest_list.err)
           ELSE IF ~manifest_path.ok THEN DataFilesFails(i, manifest_path.err)
           ELSE DataFilesAwaits(i, "read_manifest", manifest_path.val)

\* The read of the manifest file answers; it is decoded and projected.
ReadManifestFile(i) ==
    /\ rd[i].pc = "read_manifest"
    /\ LET content == BackendRead(storage, rd[i].path)
           manifest_files == parse_manifest_file(content.val)
       IN  IF ~content.ok THEN DataFilesFails(i, content.err)
           ELSE IF ~manifest_files.ok THEN DataFilesFails(i, manifest_files.err)
           ELSE /\ ret' = Returned("current_data_files", "",
                                   Ok(DataFiles(manifest_files.val)),
                                   rd[i].calls, Fields, FALSE)
                /\ rd' = [rd EXCEPT ![i] = IdleRead]
                /\ UNCHANGED <<table, storage, ld, last_loaded, load_failed>>

\* The caller drops the future of current_data_files at an await.
DataFilesDropped(i) ==
    /\ rd[i].pc \in {"read_manifest_list", "read_manifest"}
    /\ ret' = Dropped("current_data_files", rd[i].calls, Fields)
    /\ rd' = [rd EXCEPT ![i] = IdleRead]
    /\ UNCHANGED <<table, storage, ld, last_loaded, load_failed>>

DataFilesStep ==
    \E i \in Readers :
        \/ CurrentDataFiles(i)
        \/ ReadManifestList(i)
        \/ ReadManifestFile(i)
        \/ DataFilesDropped(i)

Next ==
    \/ StorageChanges
    \/ Load
    \/ LoadStep
    \/ CurrentTableMetadata
    \/ RelPath
    \/ DataFilesStep

Spec == Init /\ [][Next]_vars

\* The runs of concurrent readers over the storages of the walk.
SpecReaders == InitReaders /\ [][Next]_vars

(***************************************************************************)
(* Properties.                                                              *)
(***************************************************************************)
Unloaded == current_version = 0 /\ current_location = None
Loaded == current_version # 0 /\ current_location # None

LoadReturned == ret.op = "load" /\ ret.out = "returned"

\* What current_table_metadata answers when the fields are f.
MetadataOf(f) ==
    IF f.version = 0 THEN Err(ErrNotLoaded)
    ELSE IF f.version \notin DOMAIN f.cache THEN Err(ErrNotFound)
    ELSE Ok(f.cache[f.version])

\* C1: a load that returns an error, or whose future is dropped at an await,
\* leaves current_version, current_location and the cache as they were when
\* it was called; nor has a load suspended at an await changed them yet.
C1_FailedLoadKeepsFields ==
    /\ (ret.op = "load" /\ (ret.out = "dropped" \/ ~ret.res.ok)) => Fields = ret.pre
    /\ ld.pc \in {"is_exist", "read_hint", "list", "read_metadata"} => Fields = ld.pre

\* A load on a loaded table has failed to decode the metadata file it read.
C1_Witness ==
    /\ LoadReturned
    /\ ret.res = Err(ErrDecode)
    /\ ret.pre.version # 0
    /\ ret.pre.location # None
    /\ DOMAIN ret.pre.cache # {}

\* C2: between calls the table is Unloaded or Loaded; it is Loaded only after
\* a load has returned Ok, and every load that returns Ok leaves it Loaded.
C2_UnloadedOrLoaded ==
    ld.pc = "idle" =>
        /\ Unloaded \/ Loaded
        /\ Loaded => last_loaded # None
        /\ (LoadReturned /\ ret.res.ok) => Loaded

\* C3: once a load has returned Ok, current_table_metadata returns the
\* metadata decoded by the last load that did.
C3_LoadedStaysReadable ==
    (ret.op = "current_table_metadata" /\ last_loaded # None) =>
        ret.res = Ok(last_loaded[1])

\* C4: while no load has returned Ok, current_table_metadata and
\* current_data_files answer "not loaded yet", rel_path answers "location is
\* empty" whatever its argument, and current_data_files has read nothing.
C4_NotLoadedGuards ==
    last_loaded = None =>
        /\ \A i \in Readers : rd[i].pc = "idle"
        /\ ret.op = "current_table_metadata" => ret.res = Err(ErrNotLoaded)
        /\ ret.op = "current_data_files" =>
              ret.res = Err(ErrNotLoaded) /\ ret.calls = <<>>
        /\ ret.op = "rel_path" => ret.res = Err(ErrLocationEmpty)

\* current_data_files has answered on a table whose only loads have failed.
C4_Witness ==
    /\ last_loaded = None
    /\ load_failed
    /\ ret.op = "current_data_files"
    /\ ret.out = "returned"

\* The text t is an optional sign and one or more decimal digits.
IsDecimalInteger(t) ==
    LET body == IF t # "" /\ Head(t) \in {"+", "-"} THEN Tail(t) ELSE t
    IN  body # "" /\ \A i \in 1..Len(body) : IsDigit(CharAt(body, i))

\* The integer the text t holds, written without "+" and leading zeros.
DecimalText(t) ==
    LET body == StripZeros(IF Head(t) \in {"+", "-"} THEN Tail(t) ELSE t)
    IN  IF Head(t) = "-" /\ body # "0" THEN "-" \o body ELSE body

\* The integer the text t holds is one of i32.
InI32(t) ==
    FitsIn(StripZeros(IF Head(t) \in {"+", "-"} THEN Tail(t) ELSE t),
           IF Head(t) = "-" THEN I32MinText ELSE I32MaxText)

HintHoldsInteger ==
    /\ storage.hint.stat = "present"
    /\ storage.hint.bytes.utf8
    /\ IsDecimalInteger(storage.hint.bytes.text)

\* The load that returned asked for the hint, read it, then read `path` and
\* nothing else; it returned Ok exactly if `path` decodes, with its metadata.
LoadReadExactly(path) ==
    /\ ret.calls = <<Call("is_exist", HintFile), Call("read", HintFile),
                     Call("read", path)>>
    /\ ret.res.ok <=> (path \in storage.present /\ Content[path].kind = "table_metadata")
    /\ ret.res.ok => last_loaded = Some(Content[path].val)

\* C5 as stated: whenever the hint file exists and holds the integer v, load
\* reads and decodes exactly metadata/v{v}.metadata.json.
C5_HintOfAnyInteger ==
    (LoadReturned /\ HintHoldsInteger) =>
        LoadReadExactly("metadata/v" \o DecimalText(storage.hint.bytes.text)
                            \o MetadataSuffix)

\* C5, amended: whenever the hint file exists and holds an integer v of i32
\* (a sign and digits, nothing else), load reads and decodes exactly
\* metadata/v{v}.metadata.json, whatever other metadata files there are.
C5_HintSelectsVersion ==
    (LoadReturned /\ HintHoldsInteger /\ InI32(storage.hint.bytes.text)) =>
        LoadReadExactly("metadata/v" \o DecimalText(storage.hint.bytes.text)
                            \o MetadataSuffix)

\* The hint 2 has selected v2 although v3 and v10 are there.
C5_Witness ==
    /\ LoadReturned
    /\ storage.hint = Hint("present", Text("2"))
    /\ {PathV3, PathV10} \subseteq storage.present
    /\ ret.res.ok
    /\ last_loaded = Some(MetaV2)

\* The objects under metadata/ whose name ends with .metadata.json.
Candidates ==
    {p \in storage.present :
        StripPrefix(p, MetadataDir) # None /\ EndsWith(p, MetadataSuffix)}

\* The name that is last in ascending lexicographic order.
LexLast(S) == CHOOSE p \in S : \A q \in S : q = p \/ StrLess(q, p)

HintAbsentListed ==
    /\ storage.hint.stat = "absent"
    /\ storage.list = "ok"
    /\ Candidates # {}

LoadListedAndRead(path) ==
    ret.calls = <<Call("is_exist", HintFile), Call("list", MetadataDir),
                  Call("read", path)>>

\* C6: without a hint file load reads the candidate whose name is last in
\* lexicographic order, and current_table_metadata().last_updated_ms is then
\* the timestamp of that file.
C6_FallbackSelectsLexLast ==
    (LoadReturned /\ HintAbsentListed) =>
        LET path == LexLast(Candidates)
        IN  /\ LoadListedAndRead(path)
            /\ Content[path].kind = "table_metadata" =>
                  /\ ret.res.ok
                  /\ current_table_metadata.ok
                  /\ current_table_metadata.val.last_updated_ms
                        = Content[path].val.last_updated_ms

\* C6, the part that holds whatever the timestamp: without a hint file load
\* lists metadata/ and reads the candidate whose name is last in
\* lexicographic order, whatever the order of the listing, and with v2 and
\* v10 there it reads v2; if the file decodes, load returns Ok with it.
C6_FallbackReadsLexLast ==
    (LoadReturned /\ HintAbsentListed) =>
        LET path == LexLast(Candidates)
        IN  /\ LoadListedAndRead(path)
            /\ {PathV2, PathV10} \subseteq Candidates /\ PathV3 \notin Candidates
                  => path = PathV2
            /\ Content[path].kind = "table_metadata" =>
                  ret.res.ok /\ last_loaded = Some(Content[path].val)

\* C7: a load called right after a load that returned, on the same storage,
\* leaves current_version, current_location, the answer of
\* current_table_metadata and the number of cache entries as they were.
C7_ReloadChangesNothing ==
    (LoadReturned /\ ret.again) =>
        /\ current_version = ret.pre.version
        /\ current_location = ret.pre.location
        /\ current_table_metadata = MetadataOf(ret.pre)
        /\ Cardinality(DOMAIN table_metadata) = Cardinality(DOMAIN ret.pre.cache)

\* A second load in a row has returned Ok.
C7_Witness ==
    /\ LoadReturned
    /\ ret.again
    /\ ret.res.ok
    /\ current_version # 0

\* rel_path was called on a loaded table with its location, "/metadata/", x.
RelPathOfMetadata(x) ==
    /\ ret.op = "rel_path"
    /\ ret.pre.version # 0
    /\ ret.pre.location # None
    /\ ret.arg = ret.pre.location[1] \o "/metadata/" \o x

Suffixes(path) == {SubSeq(path, k + 1, Len(path)) : k \in 0..Len(path)}

\* C8 as stated: rel_path(L + "/metadata/x") returns "metadata/x".
C8_RelPathDropsSeparator ==
    \A x \in Suffixes(ret.arg) :
        RelPathOfMetadata(x) => ret.res = Ok("metadata/" \o x)

\* C8, amended: rel_path(L + "/metadata/x") returns "/metadata/x", the rest
\* of the path with the separator that follows L.
C8_RelPathKeepsSeparator ==
    \A x \in Suffixes(ret.arg) :
        RelPathOfMetadata(x) => ret.res = Ok("/metadata/" \o x)

\* rel_path(L1 + "/metadata/x") was called on a table loaded at L1.
C8_Witness ==
    /\ RelPathOfMetadata("x")
    /\ ret.pre.location = Some(L1)

\* C9: on a table with location L, rel_path(p) returns Ok(r) exactly if L is
\* a byte prefix of p, then with L + r = p, otherwise "not starts with table
\* location"; the fields are as before the call.
C9_RelPathStripsBytePrefix ==
    (ret.op = "rel_path" /\ ret.pre.location # None) =>
        LET L == ret.pre.location[1]
            p == ret.arg
        IN  /\ ret.res.ok <=> \E k \in 0..Len(p) : SubSeq(p, 1, k) = L
            /\ ret.res.ok => L \o ret.res.val = p
            /\ ~ret.res.ok => ret.res = Err(ErrNotUnderLocation)
            /\ Fields = ret.pre

\* rel_path of a path under L2 = L1 + "2" has succeeded on a table at L1.
C9_Witness ==
    /\ ret.op = "rel_path"
    /\ ret.pre.version # 0
    /\ ret.pre.location = Some(L1)
    /\ ret.arg = L2 \o "/metadata/x"
    /\ ret.res = Ok("2/metadata/x")

\* The object the storage holds for the absolute path `path` of the table.
ObjectAt(path) ==
    IF rel_path(path).ok THEN BackendRead(storage, rel_path(path).val)
    ELSE Err(ErrNotUnderLocation)

\* C10: on a loaded table whose current snapshot resolves and whose manifest
\* list and manifest file can be read and decoded, current_data_files returns
\* the data_file of each entry of that manifest file, one per entry, in the
\* order of the entries; and it returns Ok in no other case.
C10_DataFilesInManifestOrder ==
    (ret.op = "current_data_files" /\ ret.out = "returned" /\ Loaded
        /\ CurrentSnapshot.ok) =>
        LET list == ObjectAt(CurrentSnapshot.val.manifest_list)
            listed == list.ok /\ list.val.kind = "manifest_list"
            manifest == ObjectAt(list.val.val.manifest_path)
            walked == listed /\ manifest.ok /\ manifest.val.kind = "manifest_file"
            entries == manifest.val.val
        IN  /\ ret.res.ok <=> walked
            /\ ret.res.ok =>
                  /\ Len(ret.res.val) = Len(entries)
                  /\ \A i \in 1..Len(entries) : ret.res.val[i] = entries[i].data_file

\* current_data_files has returned a manifest's entries with a repeated file.
C10_Witness ==
    /\ ret.op = "current_data_files"
    /\ ret.out = "returned"
    /\ ret.res = Ok(<<D2, D0, D2>>)

(***************************************************************************)
(* Properties of the walk of current_data_files, under SpecReaders.         *)
(***************************************************************************)
DataFilesReturned == ret.op = "current_data_files" /\ ret.out = "returned"

\* The table holds the metadata its current version names.
HasMetadata == current_version # 0 /\ current_version \in DOMAIN table_metadata
CurrentMetadata == table_metadata[current_version]

\* C11: on a loaded table whose metadata has a current snapshot id,
\* current_data_files fails with "snapshots is emppty" both when the metadata
\* has no snapshots list and when the list is there and empty.
C11_AbsentOrEmptyIsNoSnapshots ==
    (DataFilesReturned /\ HasMetadata
        /\ CurrentMetadata.current_snapshot_id # None
        /\ CurrentMetadata.snapshots \in {None, Some(<<>>)}) =>
        ret.res = Err(ErrNoSnapshots)

\* What the code does in the two cases of C11: the absent list is "snapshots
\* is emppty", the empty list "snapshot with id .. is not found".
C11_EmptyIsNotFound ==
    (DataFilesReturned /\ HasMetadata
        /\ CurrentMetadata.current_snapshot_id # None) =>
        /\ CurrentMetadata.snapshots = None => ret.res = Err(ErrNoSnapshots)
        /\ CurrentMetadata.snapshots = Some(<<>>) => ret.res = Err(ErrSnapshotNotFound)

\* The snapshots of the metadata m, none when it has no list.
SnapshotsOf(m) == IF m.snapshots = None THEN <<>> ELSE m.snapshots[1]

\* The indices of the snapshots of m that carry its current snapshot id.
Matches(m) ==
    {i \in 1..Len(SnapshotsOf(m)) :
        SnapshotsOf(m)[i].snapshot_id = m.current_snapshot_id[1]}

FirstMatch(m) ==
    SnapshotsOf(m)[CHOOSE i \in Matches(m) : \A j \in Matches(m) : i <= j]

ResolutionErrors ==
    {Err(ErrNoCurrentSnapshot), Err(ErrNoSnapshots), Err(ErrSnapshotNotFound)}

\* The parts of C12 that do not depend on when "not found" is answered.
C12_ResolutionOrder ==
    LET m == CurrentMetadata
    IN  /\ m.current_snapshot_id = None => ret.res = Err(ErrNoCurrentSnapshot)
        /\ (m.current_snapshot_id # None /\ Matches(m) # {}) =>
              LET list == rel_path(FirstMatch(m).manifest_list)
              IN  IF list.ok THEN ret.calls[1] = Call("read", list.val)
                  ELSE ret.res = list
        /\ ret.res \in ResolutionErrors => ret.calls = <<>>

\* C12: current_data_files looks at the current snapshot id first and fails
\* with "current snapshot id is empty" when there is none, whatever the
\* snapshots are; otherwise it walks from the first snapshot of the list
\* with that id; it fails with "snapshot with id .. is not found" exactly
\* when a non-empty list has no snapshot with that id; and none of these
\* failures reads from the backend.
C12_SnapshotResolution ==
    (DataFilesReturned /\ HasMetadata) =>
        /\ C12_ResolutionOrder
        /\ CurrentMetadata.current_snapshot_id # None =>
              (ret.res = Err(ErrSnapshotNotFound)
                  <=> (SnapshotsOf(CurrentMetadata) # <<>> /\ Matches(CurrentMetadata) = {}))

\* C12 with "not found" answered for every list, empty or not, that has no
\* snapshot with the current id: what the code does.
C12_ResolutionOfPresentList ==
    (DataFilesReturned /\ HasMetadata) =>
        /\ C12_ResolutionOrder
        /\ CurrentMetadata.current_snapshot_id # None =>
              (ret.res = Err(ErrSnapshotNotFound)
                  <=> (CurrentMetadata.snapshots # None /\ Matches(CurrentMetadata) = {}))

\* The walk went from the second of three snapshots, the first with the id.
C12_FirstMatchWalked ==
    /\ DataFilesReturned
    /\ HasMetadata
    /\ CurrentMetadata = MetaR0
    /\ ret.res = Ok(<<D2, D0, D2>>)

\* current_data_files run alone from its call to its return, on the fields
\* and the storage of the state: its result and the reads it makes.
Ended(res, calls) == [res |-> res, calls |-> calls]

Walk ==
    LET snapshot == CurrentSnapshot
        list_path == rel_path(snapshot.val.manifest_list)
        list_bytes == BackendRead(storage, list_path.val)
        manifest_list == parse_manifest_list(list_bytes.val)
        manifest_path == rel_path(manifest_list.val.manifest_path)
        bytes == BackendRead(storage, manifest_path.val)
        manifest_files == parse_manifest_file(bytes.val)
        one == <<Call("read", list_path.val)>>
        two == Append(one, Call("read", manifest_path.val))
    IN  IF ~snapshot.ok THEN Ended(snapshot, <<>>)
        ELSE IF ~list_path.ok THEN Ended(list_path, <<>>)
        ELSE IF ~list_bytes.ok THEN Ended(list_bytes, one)
        ELSE IF ~manifest_list.ok THEN Ended(manifest_list, one)
        ELSE IF ~manifest_path.ok THEN Ended(manifest_path, one)
        ELSE IF ~bytes.ok THEN Ended(bytes, two)
        ELSE IF ~manifest_files.ok THEN Ended(manifest_files, two)
        ELSE Ended(Ok(DataFiles(manifest_files.val)), two)

\* A step taken while no load is in flight leaves the three fields alone.
C13_ReadsChangeNothing == ld.pc = "idle" => UNCHANGED table

\* The read operation that returned last answered as it does alone.
C13_AnswersAsAlone ==
    /\ DataFilesReturned => ret.res = Walk.res
    /\ (ret.op = "current_table_metadata" /\ ret.out = "returned") =>
          ret.res = MetadataOf(Fields)
    /\ (ret.op = "rel_path" /\ ret.out = "returned") =>
          (ret.res.ok <=> (current_location # None
                            /\ StripPrefix(ret.arg, current_location[1]) # None))

\* C13: current_data_files, current_table_metadata and rel_path change none
\* of current_version, current_location and the cache, whether they succeed
\* or fail; and however several of them interleave at their awaits while no
\* load is in flight, the fields stay as they were and each call returns
\* what it returns when it runs alone.
C13_ReadsAreIndependent ==
    [][C13_ReadsChangeNothing]_vars /\ []C13_AnswersAsAlone

\* One current_data_files has returned its files while another, called
\* before it returned, is still waiting for its manifest file.
C13_Witness ==
    /\ DataFilesReturned
    /\ ret.res = Ok(<<D2, D0, D2>>)
    /\ \E i \in Readers : rd[i].pc = "read_manifest"

\* load run alone from its call to its return on the storage of the state:
\* its result and the calls it makes on the backend.
LoadWalk ==
    LET exist == <<Call("is_exist", HintFile)>>
        hint == Append(exist, Call("read", HintFile))
        listing == Append(exist, Call("list", MetadataDir))
        stat == storage.hint.stat
        bytes == storage.hint.bytes
        target == IF stat = "absent" THEN LexLast(Candidates)
                  ELSE "metadata/v" \o DecimalText(bytes.text) \o MetadataSuffix
        read == Append(IF stat = "absent" THEN listing ELSE hint,
                       Call("read", target))
    IN  CASE stat = "exists_fails" -> Ended(Err(ErrHintExist), exist)
          [] stat = "unreadable" -> Ended(Err(ErrStorage), hint)
          [] stat = "present" /\ ~bytes.utf8 -> Ended(Err(ErrHintUtf8), hint)
          [] stat = "present" /\ bytes.utf8
                /\ ~(IsDecimalInteger(bytes.text) /\ InI32(bytes.text)) ->
                Ended(Err(ErrHintParse), hint)
          [] stat = "absent" /\ storage.list = "list_fails" ->
                Ended(Err(ErrList), listing)
          [] stat = "absent" /\ storage.list = "entry_fails" ->
                Ended(Err(ErrListEntry), listing)
          [] stat = "absent" /\ storage.list = "ok" /\ Candidates = {} ->
                Ended(Err(ErrNoMetadata), listing)
          [] OTHER ->
                IF target \notin storage.present THEN Ended(Err(ErrStorage), read)
                ELSE IF Content[target].kind # "table_metadata"
                     THEN Ended(Err(ErrDecode), read)
                ELSE Ended(Ok("unit"), read)

\* C14: load and current_data_files end at their first failing step with
\* the error of that step: the calls they made on the backend are those up
\* to that step and no more (the manifest file is not read when the
\* manifest list cannot be relativized, read or decoded), no call is made
\* twice, and current_data_files returns all the files or an error.
C14_FailFast ==
    /\ LoadReturned => (ret.res = LoadWalk.res /\ ret.calls = LoadWalk.calls)
    /\ DataFilesReturned =>
          /\ ret.calls = Walk.calls
          /\ ret.res.ok <=> Walk.res.ok
          /\ ~ret.res.ok => ret.res = Walk.res
          /\ ret.res.ok =>
                Len(ret.res.val) = Len(Content[NormalizePath(ret.calls[2][2])].val)
    /\ (LoadReturned \/ DataFilesReturned) =>
          \A i, j \in 1..Len(ret.calls) : i # j => ret.calls[i] # ret.calls[j]

\* current_data_files has read a manifest list, could not relativize the
\* manifest path it names, and ended without a second read.
C14_Witness ==
    /\ DataFilesReturned
    /\ HasMetadata
    /\ CurrentMetadata = MetaR8
    /\ ret.res = Err(ErrNotUnderLocation)
    /\ ret.calls = <<Call("read", "/" \o PathSnap4)>>

(***************************************************************************)
(* Properties of the cache, under Spec.                                     *)
(***************************************************************************)
\* C15: between operations a current_version other than 0 is a key of the
\* cache, so that after any loads neither current_table_metadata nor
\* current_data_files answers "table metadata not found".
C15_VersionIsCached ==
    /\ (ld.pc = "idle" /\ current_version # 0) =>
          current_version \in DOMAIN table_metadata
    /\ ret.out = "returned" => ret.res # Err(ErrNotFound)

\* After three loads that returned Ok, of three versions, the metadata of
\* the current one has been read back.
C15_Witness ==
    /\ ret.op = "current_table_metadata"
    /\ ret.res.ok
    /\ current_version # 0
    /\ Cardinality(DOMAIN table_metadata) = 3

\* load is between its three assignments.
LoadCommitting == ld.pc \in {"set_location", "insert"}

\* C16 as stated: within a load the metadata is inserted into the cache
\* before current_version is updated, so that at no step of load does
\* current_version hold the new version while the cache has no entry for it.
C16_InsertedBeforeVersion ==
    (LoadCommitting /\ current_version = ld.metadata.last_updated_ms) =>
        current_version \in DOMAIN table_metadata

\* C16, amended: load assigns current_version first and inserts into the
\* cache last; the assignments follow the last await, so while
\* current_version is ahead of the cache nothing else can run and load
\* cannot be dropped; at every await of load and between operations a
\* current_version other than 0 is a key of the cache.
C16_CommitIsNotInterrupted ==
    /\ LoadCommitting =>
          /\ current_version = ld.metadata.last_updated_ms
          /\ table_metadata = ld.pre.cache
          /\ ~ENABLED (StorageChanges \/ Load \/ LoadDropped \/ CurrentTableMetadata
                          \/ RelPath \/ DataFilesStep)
    /\ (~LoadCommitting /\ current_version # 0) =>
          current_version \in DOMAIN table_metadata

\* load has assigned a version that the cache does not hold yet.
C16_Witness ==
    /\ ld.pc = "insert"
    /\ current_version = ld.metadata.last_updated_ms
    /\ current_version \notin DOMAIN table_metadata

\* Every key of the cache is the last_updated_ms of its value.
SelfKeyed(cache) == \A k \in DOMAIN cache : cache[k].last_updated_ms = k

\* A step that changes the cache is the return of a load with Ok: it keeps
\* every key, and puts the metadata that load decoded under its
\* last_updated_ms, in place of what was there, changing no other entry.
C17_CacheStep ==
    table_metadata' # table_metadata =>
        /\ ret'.op = "load" /\ ret'.out = "returned" /\ ret'.res.ok
        /\ last_loaded' # None
        /\ DOMAIN table_metadata' =
              DOMAIN table_metadata \cup {last_loaded'[1].last_updated_ms}
        /\ \A k \in DOMAIN table_metadata' :
              table_metadata'[k] = IF k = last_loaded'[1].last_updated_ms
                                   THEN last_loaded'[1] ELSE table_metadata[k]

\* Every load that returns Ok leaves what it decoded in the cache, under its
\* last_updated_ms.
C17_LoadIsCached ==
    (ret.op = "load" /\ ret.out = "returned" /\ ret.res.ok) =>
        /\ last_loaded # None
        /\ last_loaded[1].last_updated_ms \in DOMAIN table_metadata
        /\ table_metadata[last_loaded[1].last_updated_ms] = last_loaded[1]
        /\ DOMAIN ret.pre.cache \subseteq DOMAIN table_metadata

\* C17: the cache only grows and is keyed by its values: its keys are the
\* last_updated_ms of the metadata decoded by the loads that returned Ok and
\* none is ever removed, each key K maps to metadata whose last_updated_ms
\* is K, and a load whose metadata has a key already there replaces the
\* entry with what it decoded.
C17_CacheAppendOnlySelfKeyed ==
    /\ [](SelfKeyed(table_metadata) /\ C17_LoadIsCached)
    /\ [][C17_CacheStep]_vars

\* A load has replaced the entry of a key with other metadata of that key.
C17_Witness ==
    /\ LoadReturned
    /\ ret.res.ok
    /\ \E k \in DOMAIN ret.pre.cache :
          /\ table_metadata[k] # ret.pre.cache[k]
          /\ table_metadata[k] = last_loaded[1]
    /\ Cardinality(DOMAIN table_metadata) > 1

(***************************************************************************)
(* Properties of the resolution of the metadata file, under Spec.           *)
(***************************************************************************)
HintExists == storage.hint.stat \in {"present", "unreadable"}

\* The hint file is not UTF-8, or its text is not a decimal integer.
HintMalformed ==
    /\ storage.hint.stat = "present"
    /\ ~storage.hint.bytes.utf8 \/ ~IsDecimalInteger(storage.hint.bytes.text)

\* The file the hint names, when the hint holds an integer of i32.
HintTarget ==
    "metadata/v" \o DecimalText(storage.hint.bytes.text) \o MetadataSuffix

HintCalls == <<Call("is_exist", HintFile), Call("read", HintFile)>>

\* C18: when the hint file exists load never lists metadata/ and never
\* falls back to another file: a hint that is not UTF-8 or not a decimal
\* integer ends load with the error of the hint, after the read of the hint
\* and no other; a hint that names a file that cannot be read ends load
\* with the storage error, whatever other metadata files there are; and the
\* file the hint names is read once, by load, after the hint is resolved.
C18_HintNeverFallsBack ==
    (LoadReturned /\ HintExists) =>
        /\ \A i \in 1..Len(ret.calls) : ret.calls[i][1] # "list"
        /\ SubSeq(ret.calls, 1, 2) = HintCalls
        /\ HintMalformed =>
              /\ ret.res \in {Err(ErrHintUtf8), Err(ErrHintParse)}
              /\ ret.calls = HintCalls
        /\ (HintHoldsInteger /\ InI32(storage.hint.bytes.text)) =>
              /\ ret.calls = Append(HintCalls, Call("read", HintTarget))
              /\ HintTarget \notin storage.present => ret.res = Err(ErrStorage)
        /\ Len(ret.calls) = 3 => HintHoldsInteger

\* The hint "v2" has ended load with the parse error, although v2 and the
\* other metadata files are there.
C18_Witness ==
    /\ LoadReturned
    /\ storage.hint = Hint("present", Text("v2"))
    /\ ret.res = Err(ErrHintParse)
    /\ {PathV1, PathV2, PathV10} \subseteq storage.present

\* The hint 7 names a file that is not there: load has ended with the
\* storage error, although v1, v2 and v10 are there.
C18_MissingTarget ==
    /\ LoadReturned
    /\ storage.hint = Hint("present", Text("7"))
    /\ ret.res = Err(ErrStorage)
    /\ ret.calls = Append(HintCalls, Call("read", "metadata/v7.metadata.json"))
    /\ {PathV1, PathV2, PathV10} \subseteq storage.present

\* C19: when there is no hint file and no object listed under metadata/
\* ends with ".metadata.json", because nothing is there or only other
\* objects are, load fails with "no table metadata found" and has read no
\* metadata file.
C19_NoCandidateNoMetadata ==
    (LoadReturned /\ storage.hint.stat = "absent" /\ storage.list = "ok"
        /\ Candidates = {}) =>
        /\ ret.res = Err(ErrNoMetadata)
        /\ ret.calls = <<Call("is_exist", HintFile), Call("list", MetadataDir)>>

\* load has listed metadata/, found a manifest list and no metadata file
\* there, and failed.
C19_Witness ==
    /\ LoadReturned
    /\ storage.hint.stat = "absent"
    /\ Listed(storage, MetadataDir) = {PathSnap1}
    /\ ret.res = Err(ErrNoMetadata)

\* The same with nothing under metadata/.
C19_EmptyPrefix ==
    /\ LoadReturned
    /\ storage.hint.stat = "absent"
    /\ Listed(storage, MetadataDir) = {}
    /\ ret.res = Err(ErrNoMetadata)

\* C20: between operations, once a load has returned Ok, current_location
\* is the location of the metadata the cache holds under current_version,
\* also after a load that changes the location or whose metadata takes a
\* key that was there.
C20_LocationOfCurrentVersion ==
    (ld.pc = "idle" /\ last_loaded # None) =>
        /\ current_version \in DOMAIN table_metadata
        /\ current_location = Some(table_metadata[current_version].location)

\* A load has changed the location and replaced the entry of the current
\* version, which stayed the same.
C20_Witness ==
    /\ LoadReturned
    /\ ret.res.ok
    /\ ret.pre.version = current_version
    /\ ret.pre.location = Some(L1)
    /\ current_location = Some(L2)
    /\ ret.pre.cache[current_version] # table_metadata[current_version]
====
